---- MODULE Spec2Model ----
(***************************************************************************)
(* gflux (src/src/lib.rs): the component tree engine.                      *)
(*                                                                         *)
(* The engine is single threaded.  User code (build and rebuild hooks,     *)
(* the closures handed to with_model and with_model_mut, the change        *)
(* listeners, and the host's event handlers) calls back into the engine,   *)
(* so the model keeps the call stack of the user code that is running and  *)
(* lets the code on top of the stack choose its next engine call.          *)
(* exec_rebuilds is run by the host from its event loop: it starts only    *)
(* when no user code is running.  A failed RefCell borrow panics; the      *)
(* panic unwinds every frame (releasing the borrows and dropping what the  *)
(* frames own) and ends the program.                                       *)
(***************************************************************************)
EXTENDS Integers, Sequences, FiniteSets

\* Bounds of the model
MaxId == 3
MaxDepth == 2
MaxCbs == 2
MaxFired == 2
NTasks == 4

\* The ids in use: those the code under Spec creates, or the todo tree's
Ids == 1..(IF MaxId > NTasks + 2 THEN MaxId ELSE NTasks + 2)
Host == 0
NoHandle == 0 - 1

VARIABLES
  next_id,    \* ComponentTable.next_id
  map,        \* ComponentTable.map: the registered ids
  dirty,      \* ComponentTable.dirty
  parent_of,  \* ComponentCtx.parent_id of every id reserved so far (0: None)
  holder,     \* who owns the ComponentHandle of an id: Host, a component, NoHandle
  ncbs,       \* length of change_cbs
  gborrow,    \* the RefCell of the global state is mutably borrowed
  tborrow,    \* the RefCell of the ComponentTable is borrowed
  stack,      \* the user code that is running, innermost last
  pc,         \* exec_rebuilds: "idle" or "loop" (iterating all_dirty)
  todo,       \* exec_rebuilds: the part of all_dirty not yet visited
  cur,        \* exec_rebuilds: the id whose upgraded Rc it holds (0: none)
  failed,     \* the call that has panicked, and the frame it was made in
  \* history of the current run of exec_rebuilds
  rebuilt,    \* the ids it has invoked rebuild on, in order
  d0,         \* the dirty set when it started
  m0,         \* the registered ids when it started
  fmarks,     \* ids marked dirty by with_model_mut while it runs (still alive)
  fdrop,      \* ids it had yet to visit when a hook's drop destroyed them
  \* history of the window since the last run of exec_rebuilds returned
  fired,      \* per listener: how often it was invoked
  mutated,    \* with_model_mut has been called
  ncbs0,      \* the listeners registered when the window began
  dd,         \* ids destroyed while they were in the dirty set
  owed,       \* ids with a with_model_mut call (made with a listener
              \* registered) and no rebuild invoked since
  obs,        \* which of the histories is being recorded
  \* history of every id
  made,       \* what new_component/create_child has done for it, in order
  \* history of the with_model_mut call in progress
  pre,        \* the dirty set was empty just before the call marked its id
  inv         \* the listeners the call has invoked, in order

vars == <<next_id, map, dirty, parent_of, holder, ncbs, gborrow, tborrow, stack, pc, todo,
          cur, failed, rebuilt, d0, m0, fmarks, fdrop, fired, mutated, ncbs0,
          dd, owed, obs, made, pre, inv>>

engine == <<next_id, map, dirty, parent_of, holder, ncbs, gborrow>>
flushv == <<pc, todo, cur>>
runhist == <<rebuilt, d0, m0, fmarks, fdrop>>
winhist == <<fired, mutated, ncbs0, dd, owed>>
ghost == <<made, pre, inv>>

\* The histories are observations, not state of the program: a behaviour
\* records one of them (the run's, the window's, or the owed rebuilds) and
\* leaves the others as they start.
ObsRun == obs = "run"
ObsWindow == obs = "window"
ObsOwed == obs = "owed"
Rec(on, new, old) == IF on THEN new ELSE old

Min(S) == CHOOSE x \in S : \A y \in S : x <= y
Range(s) == {s[k] : k \in DOMAIN s}
Inc(n, cap) == IF n < cap THEN n + 1 ELSE cap

\* ------------------------------------------------------------------------
\* ComponentTable
\* ------------------------------------------------------------------------

NoFailure == [call |-> "none", in |-> "none"]
Failed == failed # NoFailure

\* ComponentTable::new, ComponentTree::new; o is the history recorded
Start(o) ==
  /\ next_id = 1
  /\ map = {}
  /\ dirty = {}
  /\ parent_of = [c \in Ids |-> 0]
  /\ holder = [c \in Ids |-> NoHandle]
  /\ ncbs = 0
  /\ gborrow = FALSE
  /\ tborrow = FALSE
  /\ stack = <<>>
  /\ pc = "idle"
  /\ todo = {}
  /\ cur = 0
  /\ failed = NoFailure
  /\ rebuilt = <<>>
  /\ d0 = {}
  /\ m0 = {}
  /\ fmarks = {}
  /\ fdrop = {}
  /\ fired = [i \in 1..MaxCbs |-> 0]
  /\ mutated = FALSE
  /\ ncbs0 = 0
  /\ dd = {}
  /\ owed = {}
  /\ obs = o
  /\ made = [c \in Ids |-> <<>>]
  /\ pre = FALSE
  /\ inv = <<>>

Init == \E o \in {"run", "window", "owed"} : Start(o)

\* Mutant: the table never reports clean
is_clean_never(d) == FALSE

\* ComponentTable::is_clean
is_clean(d) == d = {}

\* Mutant: marking a dirty id takes the mark away
mark_dirty_toggle(d, cid) == IF cid \in d THEN d \ {cid} ELSE d \cup {cid}

\* ComponentTable::mark_dirty
mark_dirty(d, cid) == d \cup {cid}

\* Mutant: destroy removes nothing
destroy_nothing(S, B) == S

\* ComponentTable::destroy, applied to every id of B
destroy(S, B) == S \ B

\* The ids reserved so far: a ComponentCtx of each may be in user hands
Created == 1..(next_id - 1)

\* ------------------------------------------------------------------------
\* The running user code
\* ------------------------------------------------------------------------

\* One frame of user code: k is "build" or "rebuild0" (the hooks that
\* new_component/create_child run on the component id they are creating),
\* "rebuild" (the hook exec_rebuilds runs on id), "f" (the closure of a
\* with_model call), "fm" (the closure of a with_model_mut call; wc is the
\* call's was_clean), "cb" (listener i, invoked by a with_model_mut call).
Frame(k, id, wc, i) == [k |-> k, id |-> id, wc |-> wc, i |-> i]
Closure(k, wc, i) == Frame(k, 0, wc, i)

Top == stack[Len(stack)]
Pop == SubSeq(stack, 1, Len(stack) - 1)
Hooks == {"build", "rebuild0", "rebuild"}

\* An event handler of the host runs: no user code, no exec_rebuilds
AtHost == stack = <<>> /\ pc = "idle"
InFrame(K) == stack # <<>> /\ Top.k \in K
CanPush == Len(stack) < MaxDepth

\* The components whose build or first rebuild is running: not yet inserted
UnderConstruction ==
  {stack[k].id : k \in {j \in DOMAIN stack : stack[j].k \in {"build", "rebuild0"}}}

\* Mutant: the borrow never fails (a shared borrow, or an unchecked cell)
BorrowNeverFails(g) == FALSE

\* RefCell::borrow_mut on the global state panics when it is borrowed
BorrowMutFails(g) == g

\* RefCell::borrow_mut on change_cbs panics while with_model_mut iterates it
CbsBorrowed == \E k \in DOMAIN stack : stack[k].k = "cb"

\* ------------------------------------------------------------------------
\* Handles and Drop
\* ------------------------------------------------------------------------

\* Mutant: a dropped component keeps the handles it owns
DroppedOnly(H, pin) == H

\* The handles that go when the handles H go: dropping the last strong
\* reference drops the ComponentBase, whose component owns further handles.
\* pin is the id exec_rebuilds holds an upgraded Rc of: its ComponentBase
\* outlives its handle.
RECURSIVE DroppedHandles(_, _)
DroppedHandles(H, pin) ==
  LET B == H \ {pin}
      N == {h \in Ids : holder[h] \in B}
  IN IF N \subseteq H THEN H ELSE DroppedHandles(H \cup N, pin)

\* Drop for ComponentBase on every id of B, the handles H being gone;
\* d is the dirty set before
DropBases(H, B, d) ==
  /\ holder' = [h \in Ids |-> IF h \in H THEN NoHandle ELSE holder[h]]
  /\ map' = destroy(map, B)
  /\ dirty' = destroy(d, B)
  /\ owed' = owed \ B
  /\ dd' = Rec(ObsRun /\ pc = "idle", dd \cup (B \cap d), dd)

\* A panic unwinds the whole stack: the borrows are released, the components
\* under construction are dropped with the handles they own, exec_rebuilds
\* drops its upgraded Rc and is left before it clears the dirty set.  d is
\* the dirty set when the call panics.
Unwind(d, call) ==
  LET H0 == {h \in Ids : holder[h] \in UnderConstruction}
            \cup (IF cur # 0 /\ holder[cur] = NoHandle THEN {cur} ELSE {})
      H == DroppedHandles(H0, 0)
  IN /\ DropBases(H, H, d)
     /\ stack' = <<>>
     /\ gborrow' = FALSE
     /\ tborrow' = FALSE
     /\ pc' = "idle"
     /\ todo' = {}
     /\ cur' = 0
     /\ failed' = [call |-> call, in |-> Top.k]
     /\ rebuilt' = <<>>
     /\ d0' = {}
     /\ m0' = {}
     /\ fmarks' = {}
     /\ fdrop' = {}
     /\ UNCHANGED <<next_id, parent_of, ncbs, fired, mutated, ncbs0, ghost>>

\* ComponentHandle dropped by the code that owns it: the host (or whoever
\* shares the handle with it) from anywhere, a component from its hooks
DropHandle(h) ==
  /\ \/ AtHost /\ holder[h] = Host
     \/ InFrame(Hooks) /\ holder[h] \in {Host, Top.id}
  /\ IF BorrowMutFails(tborrow)
       THEN Unwind(dirty, "drop")
       ELSE /\ LET H == DroppedHandles({h}, cur)
               IN /\ DropBases(H, H \ {cur}, dirty)
                  /\ fmarks' = fmarks \ (H \ {cur})
                  /\ fdrop' = Rec(ObsRun /\ pc = "loop",
                                   fdrop \cup ((H \ {cur}) \cap todo), fdrop)
            /\ UNCHANGED <<next_id, parent_of, ncbs, gborrow, tborrow, stack, flushv,
                           failed, rebuilt, d0, m0, fired, mutated, ncbs0, ghost>>

\* ------------------------------------------------------------------------
\* ComponentTree::on_first_change
\* ------------------------------------------------------------------------

\* change_cbs.borrow_mut().push(f); called by the host, or from a listener
OnFirstChange ==
  /\ AtHost \/ InFrame({"cb"})
  /\ ncbs < MaxCbs
  /\ IF CbsBorrowed
       THEN Unwind(dirty, "on_first_change")
       ELSE /\ ncbs' = ncbs + 1
            /\ UNCHANGED <<next_id, map, dirty, parent_of, holder, gborrow, tborrow,
                           stack, flushv, failed, runhist, winhist, ghost>>

\* ------------------------------------------------------------------------
\* ComponentCtx::with_model, ComponentCtx::with_model_mut
\* ------------------------------------------------------------------------

\* The contexts the running code calls with_model on: a hook the one it was
\* given, any other code a clone of any context
Readable == IF InFrame(Hooks) THEN {Top.id} ELSE Created

\* with_model on the context of x, up to the call of f
WithModel(x) ==
  /\ AtHost \/ stack # <<>>
  /\ x \in Readable
  /\ IF BorrowMutFails(gborrow)
       THEN Unwind(dirty, "with_model")
       ELSE /\ CanPush
            /\ gborrow' = TRUE
            /\ stack' = Append(stack, Closure("f", FALSE, 0))
            /\ UNCHANGED <<next_id, map, dirty, parent_of, holder, ncbs, tborrow,
                           flushv, failed, runhist, winhist, ghost>>

\* with_model: f has returned, the RefMut is dropped
ReturnF ==
  /\ InFrame({"f"})
  /\ stack' = Pop
  /\ gborrow' = FALSE
  /\ UNCHANGED <<next_id, map, dirty, parent_of, holder, ncbs, tborrow, flushv,
                 failed, runhist, winhist, ghost>>

\* with_model_mut on the context of x, up to the call of f
WithModelMut(x) ==
  /\ AtHost \/ stack # <<>>
  /\ x \in Created
  /\ LET was_clean == is_clean(dirty)
         d == mark_dirty(dirty, x)
     IN IF BorrowMutFails(tborrow)
          THEN Unwind(dirty, "with_model_mut")
          ELSE IF BorrowMutFails(gborrow)
          THEN Unwind(d, "with_model_mut")
          ELSE /\ CanPush
               /\ dirty' = d
               /\ gborrow' = TRUE
               /\ stack' = Append(stack, Closure("fm", was_clean, 0))
               /\ fmarks' = Rec(ObsRun /\ pc = "loop", fmarks \cup {x}, fmarks)
               /\ mutated' = Rec(ObsWindow /\ pc = "idle", TRUE, mutated)
               /\ owed' = Rec(ObsOwed /\ ncbs >= 1, owed \cup {x}, owed)
               /\ pre' = was_clean
               /\ inv' = <<>>
               /\ UNCHANGED <<next_id, map, parent_of, holder, ncbs, tborrow, flushv,
                              failed, rebuilt, d0, m0, fdrop, fired, ncbs0, dd, made>>

\* Listener i is invoked
Invoke(i) ==
  /\ fired' = Rec(ObsWindow, [fired EXCEPT ![i] = Inc(fired[i], MaxFired)], fired)
  /\ inv' = Append(inv, i)
  /\ UNCHANGED pre

\* with_model_mut returns r: its locals (the RefMut of the global state, the
\* Ref of change_cbs) are dropped
Leave ==
  /\ stack' = Pop
  /\ gborrow' = FALSE
  /\ pre' = FALSE
  /\ inv' = <<>>
  /\ UNCHANGED fired

\* Mutant: the listeners are invoked by every call
ListenersAlways(was_clean) == ncbs

\* The listeners with_model_mut invokes once f has returned
Listeners(was_clean) == IF was_clean THEN ncbs ELSE 0

\* with_model_mut: f has returned; the first listener, if any, is invoked
ReturnFm ==
  /\ InFrame({"fm"})
  /\ IF Listeners(Top.wc) >= 1
       THEN /\ stack' = [stack EXCEPT ![Len(stack)] = Closure("cb", TRUE, 1)]
            /\ Invoke(1)
            /\ UNCHANGED gborrow
       ELSE Leave
  /\ UNCHANGED <<next_id, map, dirty, parent_of, holder, ncbs, tborrow, flushv,
                 failed, runhist, mutated, ncbs0, dd, owed, made>>

\* with_model_mut: listener i has returned; the next one, if any, is invoked
ReturnCb ==
  /\ InFrame({"cb"})
  /\ IF Top.i < Listeners(Top.wc)
       THEN /\ stack' = [stack EXCEPT ![Len(stack)] = Closure("cb", TRUE, Top.i + 1)]
            /\ Invoke(Top.i + 1)
            /\ UNCHANGED gborrow
       ELSE Leave
  /\ UNCHANGED <<next_id, map, dirty, parent_of, holder, ncbs, tborrow, flushv,
                 failed, runhist, mutated, ncbs0, dd, owed, made>>

\* ------------------------------------------------------------------------
\* ComponentTree::new_component, ComponentCtx::create_child
\* ------------------------------------------------------------------------

\* Mutant: next_id is not incremented
reserve_id_same(n) == n

\* ComponentTable::reserve_id
reserve_id(n) == n + 1

\* new_component (p = 0) or create_child on the context of p, up to the call
\* of build.  The host's handlers hold clones of any context; a hook uses the
\* context it was given.
Create(p) ==
  /\ \/ AtHost /\ p \in {0} \cup Created
     \/ InFrame(Hooks) /\ p = Top.id
  /\ next_id <= MaxId
  /\ CanPush
  /\ IF BorrowMutFails(tborrow)
       THEN Unwind(dirty, "create_child")
       ELSE /\ next_id' = reserve_id(next_id)
            /\ parent_of' = [parent_of EXCEPT ![next_id] = p]
            /\ stack' = Append(stack, Frame("build", next_id, FALSE, 0))
            /\ made' = [made EXCEPT ![next_id] = <<"reserve", "build">>]
            /\ UNCHANGED <<pre, inv>>
            /\ UNCHANGED <<map, dirty, holder, ncbs, gborrow, tborrow, flushv, failed,
                           runhist, winhist>>

\* build has returned: rebuild is called on the new component
ReturnBuild ==
  /\ InFrame({"build"})
  /\ stack' = [stack EXCEPT ![Len(stack)] = Frame("rebuild0", Top.id, FALSE, 0)]
  /\ made' = [made EXCEPT ![Top.id] = Append(@, "rebuild")]
  /\ UNCHANGED <<pre, inv>>
  /\ UNCHANGED <<engine, tborrow, flushv, failed, runhist, winhist>>

\* Mutant: the id after cid is registered with it
insert_next(m, cid) == m \cup {cid, cid + 1}

\* ComponentTable::insert
insert(m, cid) == m \cup {cid}

\* Who may keep the handle that is returned: the calling hook's component
\* (in its struct), or the host
Keepers ==
  {Host} \cup (IF Len(stack) >= 2 /\ stack[Len(stack) - 1].k \in Hooks
                 THEN {stack[Len(stack) - 1].id} ELSE {})

\* rebuild has returned: the component is inserted and its handle returned
ReturnRebuild0 ==
  /\ InFrame({"rebuild0"})
  /\ \E h \in Keepers : holder' = [holder EXCEPT ![Top.id] = h]
  /\ map' = insert(map, Top.id)
  /\ made' = [made EXCEPT ![Top.id] = Append(@, "insert")]
  /\ UNCHANGED <<pre, inv>>
  /\ stack' = Pop
  /\ UNCHANGED <<next_id, dirty, parent_of, ncbs, gborrow, tborrow, flushv, failed,
                 runhist, winhist>>

\* ------------------------------------------------------------------------
\* ComponentTree::exec_rebuilds
\* ------------------------------------------------------------------------

\* Mutant: the lookup finds every id, destroyed or not
UpgradeStale(cid) == TRUE

\* map.get(cid).and_then(|c| c.upgrade())
Upgrade(cid) == cid \in map /\ (holder[cid] # NoHandle \/ cur = cid)

\* Mutant: the parent ids of the ids of S, live or not
ParentsStale(S) == {parent_of[c] : c \in {x \in S : parent_of[x] # 0}}

\* The parent ids of the live components of S
Parents(S) == {parent_of[c] : c \in {x \in S : Upgrade(x) /\ parent_of[x] # 0}}

\* Mutant: the dirty ids alone, no parent is added
ClimbNone(new_dirty, all_dirty) == all_dirty \cup new_dirty

\* Mutant: every registered component once anything is dirty
ClimbAll(new_dirty, all_dirty) == IF new_dirty = {} THEN all_dirty ELSE map \cup new_dirty

\* The while loop: all_dirty.append(new_dirty); new_dirty.append(dirty_parents)
RECURSIVE Climb(_, _)
Climb(new_dirty, all_dirty) ==
  IF new_dirty = {} THEN all_dirty
  ELSE Climb(Parents(new_dirty), all_dirty \cup new_dirty)

\* Mutant: descending order
LastCid(S) == CHOOSE x \in S : \A y \in S : y <= x

\* for cid in &all_dirty: a BTreeSet iterates in ascending order
NextCid(S) == Min(S)

\* Mutant: the lookup is the scrutinee of the if let, so that its borrow of
\* the table lives until the end of the block
HeldByIfLet == TRUE

\* The borrow_mut of the lookup is a temporary of the let statement: it is
\* released before rebuild is called
HeldAcrossRebuild == FALSE

\* exec_rebuilds up to the for loop
FlushStart ==
  /\ AtHost
  /\ todo' = Climb(dirty, {})
  /\ pc' = "loop"
  /\ rebuilt' = <<>>
  /\ d0' = Rec(ObsRun, dirty, {})
  /\ m0' = Rec(ObsRun, map, {})
  /\ fmarks' = {}
  /\ fdrop' = {}
  /\ UNCHANGED <<engine, tborrow, stack, cur, failed, winhist, ghost>>

\* One iteration of the for loop, up to the call of rebuild
FlushStep ==
  /\ pc = "loop" /\ stack = <<>> /\ todo # {}
  /\ LET cid == NextCid(todo)
     IN /\ todo' = todo \ {cid}
        /\ IF Upgrade(cid)
             THEN /\ cur' = cid
                  /\ stack' = <<Frame("rebuild", cid, FALSE, 0)>>
                  /\ rebuilt' = Rec(ObsRun, Append(rebuilt, cid), rebuilt)
                  /\ owed' = owed \ {cid}
                  /\ tborrow' = HeldAcrossRebuild
             ELSE UNCHANGED <<cur, stack, rebuilt, owed, tborrow>>
  /\ UNCHANGED <<engine, pc, failed, d0, m0, fmarks, fdrop, fired, mutated, ncbs0,
                 dd, ghost>>

\* rebuild has returned: the upgraded Rc is dropped; it was the last strong
\* reference if the handle was dropped meanwhile
ReturnRebuild ==
  /\ InFrame({"rebuild"})
  /\ stack' = Pop
  /\ cur' = 0
  /\ tborrow' = FALSE
  /\ IF holder[cur] = NoHandle
       THEN LET H == DroppedHandles({cur}, 0)
            IN DropBases(H, H, dirty) /\ fmarks' = fmarks \ H
       ELSE UNCHANGED <<holder, map, dirty, fmarks, owed, dd>>
  /\ UNCHANGED <<next_id, parent_of, ncbs, gborrow, pc, todo, failed, rebuilt, d0,
                 m0, fdrop, fired, mutated, ncbs0, ghost>>

\* All rebuilds of the run are done; the dirty set is not yet cleared
FlushDone == pc = "loop" /\ stack = <<>> /\ todo = {}

\* self.comp_table.borrow_mut().dirty.clear(), and the return
FlushEnd ==
  /\ FlushDone
  /\ dirty' = {}
  /\ pc' = "idle"
  /\ rebuilt' = <<>>
  /\ d0' = {}
  /\ m0' = {}
  /\ fmarks' = {}
  /\ fdrop' = {}
  /\ fired' = [i \in 1..MaxCbs |-> 0]
  /\ mutated' = FALSE
  /\ ncbs0' = Rec(ObsWindow, ncbs, ncbs0)
  /\ dd' = {}
  /\ UNCHANGED <<next_id, map, parent_of, holder, ncbs, gborrow, tborrow, stack,
                 todo, cur, failed, owed, ghost>>

\* ------------------------------------------------------------------------

\* A step of the program: a panic has ended it
Do(A) == ~Failed /\ A /\ UNCHANGED obs

\* What the code that is running may do next
Next ==
  \/ Do(OnFirstChange)
  \/ \E x \in Ids : Do(WithModel(x))
  \/ Do(ReturnF)
  \/ \E x \in Ids : Do(WithModelMut(x))
  \/ Do(ReturnFm)
  \/ Do(ReturnCb)
  \/ \E p \in 0..MaxId : Do(Create(p))
  \/ Do(ReturnBuild)
  \/ Do(ReturnRebuild0)
  \/ \E h \in Ids : Do(DropHandle(h))
  \/ Do(FlushStart)
  \/ Do(FlushStep)
  \/ Do(ReturnRebuild)
  \/ Do(FlushEnd)

Spec == Init /\ [][Next]_vars

\* The behaviours that record the history of the runs of exec_rebuilds
SpecRun == Start("run") /\ [][Next]_vars

\* The behaviours that record the history of the window between two runs
SpecWindow == Start("window") /\ [][Next]_vars

\* The behaviours that record the rebuilds with_model_mut calls are owed
SpecOwed == Start("owed") /\ [][Next]_vars

TypeOK ==
  /\ next_id \in 1..(MaxId + 1) \cup {NTasks + 3}
  /\ map \subseteq Ids /\ dirty \subseteq Ids
  /\ holder \in [Ids -> {NoHandle, Host} \cup Ids]
  /\ Len(stack) <= MaxDepth

\* ------------------------------------------------------------------------
\* The todo example: a root R, its list L, the tasks T1..Tn of L
\* ------------------------------------------------------------------------

RootId == 1
ListId == RootId + 1
Task(k) == ListId + k
Tasks == {Task(k) : k \in 1..NTasks}

\* The tree once main has registered its listener and built the components:
\* each component keeps the handles of its children
InitTodo ==
  /\ next_id = Task(NTasks) + 1
  /\ map = {RootId, ListId} \cup Tasks
  /\ dirty = {}
  /\ parent_of = [c \in Ids |-> IF c = ListId THEN RootId
                                ELSE IF c \in Tasks THEN ListId ELSE 0]
  /\ holder = [c \in Ids |-> IF c = RootId THEN Host
                             ELSE IF c = ListId THEN RootId
                             ELSE IF c \in Tasks THEN ListId ELSE NoHandle]
  /\ ncbs = 1
  /\ gborrow = FALSE
  /\ tborrow = FALSE
  /\ stack = <<>>
  /\ pc = "idle"
  /\ todo = {}
  /\ cur = 0
  /\ failed = NoFailure
  /\ rebuilt = <<>>
  /\ d0 = {}
  /\ m0 = {}
  /\ fmarks = {}
  /\ fdrop = {}
  /\ fired = [i \in 1..MaxCbs |-> 0]
  /\ mutated = FALSE
  /\ ncbs0 = 0
  /\ dd = {}
  /\ owed = {}
  /\ obs = "run"
  /\ made = [c \in Ids |-> IF c < next_id
                              THEN <<"reserve", "build", "rebuild", "insert">>
                              ELSE <<>>]
  /\ pre = FALSE
  /\ inv = <<>>

\* The handlers of the widgets mutate the model, the rebuild hooks read it,
\* the idle callback runs exec_rebuilds; no component is created or dropped
\* as long as no task is added or removed
NextTodo ==
  \/ \E x \in Ids : Do(AtHost /\ WithModelMut(x))
  \/ Do(ReturnFm)
  \/ Do(ReturnCb)
  \/ \E x \in Ids : Do(InFrame(Hooks) /\ WithModel(x))
  \/ Do(ReturnF)
  \/ Do(FlushStart)
  \/ Do(FlushStep)
  \/ Do(ReturnRebuild)
  \/ Do(FlushEnd)

SpecTodo == InitTodo /\ [][NextTodo]_vars

\* ------------------------------------------------------------------------
\* Properties
\* ------------------------------------------------------------------------

\* The ancestors of c along the recorded parent ids, up to the root
RECURSIVE Ancestors(_)
Ancestors(c) ==
  IF parent_of[c] = 0 THEN {} ELSE {parent_of[c]} \cup Ancestors(parent_of[c])

\* c and the ancestors of c that the parent ids of components registered
\* when the run started lead to
RECURSIVE LiveChain(_)
LiveChain(c) ==
  IF c \notin m0 THEN {c}
  ELSE {c} \cup (IF parent_of[c] = 0 THEN {} ELSE LiveChain(parent_of[c]))

RebuiltSet == Range(rebuilt)

\* C1 as claimed: when exec_rebuilds has done its rebuilds, every component
\* that was dirty (and registered) when it started has been rebuilt, and so
\* has every ancestor of it that was registered then.
C1_AsClaimed ==
  FlushDone =>
    \A c \in d0 \cap m0 : (({c} \cup Ancestors(c)) \cap m0) \subseteq RebuiltSet

\* C1, amended: when exec_rebuilds has done its rebuilds, every component
\* that was dirty when it started, and every ancestor that parent ids of
\* components registered at the start lead to from it, has been rebuilt
\* unless it was destroyed before its turn (it is then no longer
\* registered), also when no ancestor was marked dirty itself.
C1_AncestorClosure ==
  FlushDone =>
    \A c \in d0 : \A a \in LiveChain(c) : a \in RebuiltSet \/ a \notin map

\* A run has rebuilt a dirty component, its parent and its grandparent, none
\* of the two ancestors having been dirty
C1_Witness ==
  /\ FlushDone
  /\ \E c \in d0 :
       /\ d0 = {c}
       /\ parent_of[c] # 0
       /\ parent_of[parent_of[c]] # 0
       /\ {c, parent_of[c], parent_of[parent_of[c]]} \subseteq RebuiltSet

\* C2: while exec_rebuilds runs, every component it has invoked rebuild on
\* was in the dirty set when it started or has a descendant that was; so a
\* clean component with no dirty descendant is not rebuilt, and a run on an
\* empty dirty set rebuilds nothing.
C2_CleanExclusion ==
  pc = "loop" =>
    \A x \in RebuiltSet : x \in d0 \/ \E d \in d0 : x \in Ancestors(d)

\* A run has rebuilt something and left alone a registered component that
\* was clean and had no dirty descendant
C2_Witness ==
  /\ FlushDone
  /\ RebuiltSet # {}
  /\ \E x \in m0 \cap map :
       /\ x \notin d0
       /\ \A d \in d0 : x \notin Ancestors(d)
       /\ x \notin RebuiltSet

\* The window between two runs of exec_rebuilds is open at the host
InWindow == AtHost /\ ~Failed

\* C3 as claimed: once with_model_mut has been called (and has returned)
\* after a run of exec_rebuilds, every listener that was registered when
\* that run returned has been invoked exactly once, until the next run.
C3_AsClaimed ==
  (InWindow /\ mutated) => \A i \in 1..ncbs0 : fired[i] = 1

\* C4: in one run of exec_rebuilds no component is rebuilt before one of
\* its ancestors: of two rebuilt components of one lineage the ancestor
\* comes first.
C4_TopDown ==
  \A i, j \in DOMAIN rebuilt :
    i < j => rebuilt[j] \notin Ancestors(rebuilt[i])

\* A run has rebuilt a component and, after it, one of its descendants
C4_Witness ==
  \E i, j \in DOMAIN rebuilt : i < j /\ rebuilt[i] \in Ancestors(rebuilt[j])

\* C5 as claimed: when exec_rebuilds returns, the ids that rebuild hooks
\* marked dirty during the run (and that are still alive) are in the dirty
\* set.
C5_AsClaimed == [][FlushEnd => fmarks \subseteq dirty']_vars

\* C6 as claimed, as the state no run can repair: when the host is idle and
\* the dirty set is empty (so that no run of exec_rebuilds, scheduled or
\* not, rebuilds anything, and the next mark notifies afresh), no registered
\* component has a with_model_mut call, made with the host's listener
\* registered, that no rebuild followed.
C6_AsClaimed ==
  (InWindow /\ dirty = {}) => owed \cap map = {}

\* C7: a component destroyed while dirty, before exec_rebuilds runs, is not
\* registered and is not rebuilt by that run; the run's own steps do not
\* fail; when it returns, the id is neither registered nor dirty.
C7_DestructionSafety ==
  [][ /\ \A x \in dd' : x \notin map' /\ x \notin Range(rebuilt')
      /\ FlushEnd => \A x \in dd : x \notin map' /\ x \notin dirty'
      /\ (FlushStart \/ FlushStep \/ FlushEnd) => failed' = NoFailure ]_vars

\* A run has done its rebuilds, a component having been destroyed while
\* dirty before it started
C7_Witness == FlushDone /\ dd # {} /\ RebuiltSet # {}

\* The closures and listeners that hold the RefMut of the global state
Accesses == {k \in DOMAIN stack : stack[k].k \in {"f", "fm", "cb"}}

\* C8: at most one access to the global state is outstanding, and the
\* RefCell is borrowed exactly then; a with_model or with_model_mut call
\* made while one is outstanding panics and runs no closure.
C8_NonReentrant ==
  [][ /\ Cardinality(Accesses') <= 1
      /\ gborrow' <=> Accesses' # {}
      /\ \A x \in Ids :
           (gborrow /\ (WithModel(x) \/ WithModelMut(x)))
             => (failed'.call \in {"with_model", "with_model_mut"} /\ Accesses' = {})
    ]_vars

\* A with_model call made inside the closure of a with_model call has
\* panicked
C8_Witness == failed = [call |-> "with_model", in |-> "f"]

\* C9 as claimed: while a listener runs, the global state is not borrowed.
C9_AsClaimed == (\E k \in DOMAIN stack : stack[k].k = "cb") => ~gborrow

\* C10 as claimed: in the todo tree, a run of exec_rebuilds that starts with
\* T3 alone dirty rebuilds T3, then L, then R, and nothing else.
C10_AsClaimed ==
  (FlushDone /\ d0 = {Task(3)}) => rebuilt = <<Task(3), ListId, RootId>>

\* C10, amended: in the todo tree, a run of exec_rebuilds that starts with
\* T3 alone dirty rebuilds R, then L, then T3, in that order, and no other
\* task.
C10_Scenario ==
  (FlushDone /\ d0 = {Task(3)}) => rebuilt = <<RootId, ListId, Task(3)>>

\* Such a run has done its rebuilds, the tasks before and after T3 being
\* registered and not rebuilt
C10_Witness ==
  /\ FlushDone
  /\ d0 = {Task(3)}
  /\ {Task(1), Task(2), Task(4)} \subseteq map \ RebuiltSet
  /\ Len(rebuilt) = 3

\* The steps of new_component and create_child, in the order of the code
Lifecycle == <<"reserve", "build", "rebuild", "insert">>
IsPrefix(s, t) == Len(s) <= Len(t) /\ s = SubSeq(t, 1, Len(s))

\* C11: for every id, new_component/create_child reserve it (it is fresh),
\* call build, then rebuild, each once, and then insert it and return the
\* handle, in that order; so a registered component, and one whose handle
\* exists, has been built and rebuilt; the parent id recorded for it is the
\* id of the context create_child was called on (none for new_component)
\* and never changes.
C11_CreationLifecycle ==
  [][ /\ \A c \in Ids :
           /\ IsPrefix(made'[c], Lifecycle)
           /\ (c \in map' \/ holder'[c] # NoHandle) => made'[c] = Lifecycle
           /\ (made'[c] = Lifecycle /\ made[c] # Lifecycle)
                => (c \in map' /\ holder'[c] # NoHandle)
           /\ made[c] # <<>> => parent_of'[c] = parent_of[c]
      /\ \A p \in 0..MaxId :
           Create(p) => (made[next_id] = <<>> /\ parent_of'[next_id] = p)
    ]_vars

\* A child created by a hook of a root component is registered, its handle
\* kept by that component
C11_Witness ==
  \E c \in map :
    /\ made[c] = Lifecycle
    /\ parent_of[c] \in map
    /\ holder[c] = parent_of[c]
    /\ parent_of[parent_of[c]] = 0

\* C12: a with_model_mut call on a component that is already dirty leaves
\* the dirty set as it is (marking twice is marking once), and in one run
\* of exec_rebuilds no component is rebuilt twice, whatever was dirty.
C12_IdempotentMarking ==
  [][ /\ \A x \in Ids :
           /\ mark_dirty(mark_dirty(dirty, x), x) = mark_dirty(dirty, x)
           /\ (WithModelMut(x) /\ x \in dirty /\ ~Failed') => dirty' = dirty
      /\ \A i, j \in DOMAIN rebuilt' : i # j => rebuilt'[i] # rebuilt'[j]
    ]_vars

\* A run has rebuilt a component that was dirty, was marked again while
\* dirty, and is an ancestor of two dirty components, which it has rebuilt
\* too
C12_Witness ==
  /\ FlushDone
  /\ \E a \in d0 \cap fmarks :
       /\ Cardinality({c \in d0 : a \in Ancestors(c)}) >= 2
       /\ d0 \subseteq RebuiltSet
       /\ Len(rebuilt) = Cardinality(d0)

\* C13: when exec_rebuilds returns the dirty set is empty; while it runs,
\* before that, an id leaves the dirty set only by being destroyed (no
\* clear happens before the rebuilds are done); and once a with_model_mut
\* call made after a run has returned, every listener that was registered
\* when the run returned has been invoked again.
C13_ClearsAndRearms ==
  [][ /\ FlushEnd => dirty' = {}
      /\ (pc = "loop" /\ ~FlushEnd) => (dirty \ dirty') \subseteq (map \ map')
      /\ (InWindow' /\ mutated') => \A i \in 1..ncbs0' : fired'[i] >= 1
    ]_vars

\* After a run of exec_rebuilds that returned with every listener
\* registered, a with_model_mut call has returned and all have been invoked
C13_Witness ==
  /\ InWindow
  /\ mutated
  /\ ncbs0 = MaxCbs
  /\ \A i \in 1..ncbs0 : fired[i] >= 1
  /\ dirty # {}

\* A with_model_mut call returns
Returns == InFrame({"fm", "cb"}) /\ stack' = Pop /\ ~Failed'

Issued == {c \in Ids : made[c] # <<>>}

\* C15: the id reserve_id returns has not been returned before and is
\* greater than every id returned before, whether or not the components of
\* those are still alive, and next_id grows; the parent id recorded for a
\* component is smaller than the component's id.
C15_IdInvariants ==
  [][ /\ \A p \in 0..MaxId :
           Create(p) => /\ next_id \notin Issued
                        /\ \A c \in Issued : c < next_id
                        /\ next_id' > next_id
      /\ \A c \in Issued' : parent_of'[c] # 0 => parent_of'[c] < c
    ]_vars

\* A component has been registered and destroyed, and a child of a
\* registered component, created later, is registered
C15_Witness ==
  \E c, e \in Issued :
    /\ c < e
    /\ made[c] = Lifecycle /\ c \notin map
    /\ e \in map /\ parent_of[e] \in map

\* C16: a component that exec_rebuilds had yet to visit when the drop of
\* its handle by a running hook (the rebuild of its parent, say) destroyed
\* it is not registered, is not rebuilt by that run, and has none of its
\* hooks running (so the run applies its lens to nothing); when its turn
\* comes the run skips it and does not fail.
C16_DroppedChildSkipped ==
  [][ /\ fdrop' \cap map' = {}
      /\ fdrop' \cap Range(rebuilt') = {}
      /\ \A k \in DOMAIN stack' : stack'[k].id \notin fdrop'
      /\ (FlushStep /\ NextCid(todo) \in fdrop) => (stack' = <<>> /\ ~Failed')
    ]_vars

\* A run has done its rebuilds: it has rebuilt a component whose child was
\* dirty when the run started, was dropped during the run, and has not been
\* rebuilt
C16_Witness ==
  /\ FlushDone
  /\ \E x \in fdrop \cap d0 :
       /\ parent_of[x] \in RebuiltSet
       /\ x \notin RebuiltSet
       /\ x \notin todo

\* The dirty ids that were not live when the run started
Stale == d0 \ m0

\* C17: a run of exec_rebuilds never rebuilds an id that was dirty but not
\* live when it started, and rebuilds only what the parent ids lead to from
\* the dirty ids that were live (a stale id adds no parent); each step of
\* its loop takes one id off the ids to visit and does not fail; when the
\* rebuilds are done every dirty component that is still registered has
\* been rebuilt; the run ends with the dirty set empty.
C17_StaleSkipped ==
  [][ /\ pc' = "loop" =>
           /\ Range(rebuilt') \cap Stale' = {}
           /\ \A x \in Range(rebuilt') : \E c \in d0' \cap m0' : x \in LiveChain(c)'
      /\ FlushStep => (todo' \subseteq todo /\ todo' # todo /\ ~Failed')
      /\ FlushDone' => (d0' \cap map') \subseteq Range(rebuilt')
      /\ FlushEnd => (dirty' = {} /\ pc' = "idle" /\ ~Failed')
    ]_vars

\* A run has done its rebuilds: a dirty id was stale, its parent is
\* registered and has not been rebuilt, and a dirty live component has
C17_Witness ==
  /\ FlushDone
  /\ \E x \in Stale : parent_of[x] \in map \ RebuiltSet
  /\ \E c \in d0 \cap m0 : c \in RebuiltSet

\* The ids whose handle exists: it has been returned and not been dropped
Handles == {c \in Ids : holder[c] # NoHandle}

\* h and the components whose handles h owns, directly or not
RECURSIVE Owns(_)
Owns(h) == {h} \cup UNION {Owns(c) : c \in {x \in Ids : holder[x] = h}}

C19_AsClaimed ==
  (InWindow /\ dirty # {}) => \A i \in 1..ncbs : fired[i] >= 1

\* The rebuild hook that exec_rebuilds has called is running, and nothing
\* that it has called in turn
InFlushHook == pc = "loop" /\ Len(stack) = 1 /\ Top.k = "rebuild"

\* C20: when exec_rebuilds calls rebuild, and as long as that hook runs
\* (outside the accesses it makes itself), neither the global state nor the
\* table is borrowed, and exec_rebuilds holds the component being rebuilt
\* and nothing else; a with_model, create_child or handle drop made by the
\* hook does not fail.
C20_NoBorrowAcrossHooks ==
  [][ /\ (FlushStep /\ stack' # <<>>)
           => (~gborrow' /\ ~tborrow' /\ cur' = stack'[1].id)
      /\ InFlushHook =>
           /\ ~gborrow /\ ~tborrow /\ cur = Top.id
           /\ (\/ \E x \in Ids : WithModel(x)
               \/ \E p \in 0..MaxId : Create(p)
               \/ \E h \in Ids : DropHandle(h)) => ~Failed'
    ]_vars

\* A rebuild hook called by exec_rebuilds has dropped a child that was due
\* for a rebuild, has created a child, and is reading the model
C20_Witness ==
  /\ pc = "loop" /\ Len(stack) = 2
  /\ stack[1].k = "rebuild" /\ Top.k = "f"
  /\ fdrop # {}
  /\ \E c \in map \ m0 : parent_of[c] = cur

====
